---- MODULE Spec2Model ----
(***************************************************************************)
(* Model of skills/python-bootstrap/scripts/bootstrap.py: the scaffolding  *)
(* script that renders nine files into a target directory and then runs    *)
(* six external commands, aborting on the first failure.                   *)
(*                                                                         *)
(* Text (names, paths, file contents, console lines) is a sequence of      *)
(* tokens.  A project name is a sequence of one-character tokens; fixed    *)
(* text of a template or a path is a multi-character token.  Paths are     *)
(* relative to project_dir and use the token "/" as separator; <<>> is     *)
(* project_dir itself and <<"..">> stands for its nearest existing         *)
(* ancestor.                                                               *)
(***************************************************************************)
EXTENDS Integers, Sequences, FiniteSets, TLC

VARIABLES
    project_name,    \* argument of bootstrap()
    python_version,  \* argument of bootstrap()
    description,     \* argument of bootstrap()
    package_name,    \* local of bootstrap(), <<>> until derived
    pc,              \* index into Steps of the next statement of bootstrap()
    dirs,            \* directory path -> "absent" | "rw" | "ro"
    files,           \* file path -> [mode: "absent" | "rw" | "ro", content]
    console,         \* lines printed on standard output in this run
    run_calls,       \* argument vectors handed to subprocess.run in this run
    written,         \* paths written by write_text in this run, in order
    entered,         \* orchestrator states entered in this run, in order
    result,          \* result of the last subprocess.run: [returncode, stderr]
    returncodes,     \* exit codes of the children of this run, in order
    exit_status,     \* <<>> while the process runs, <<code>> once it ended
    runs,            \* number of the current invocation of the script
    prev             \* the files as the previous invocation left them

vars == <<project_name, python_version, description, package_name, pc, dirs,
          files, console, run_calls, written, entered, result, returncodes,
          exit_status, runs, prev>>

(***************************************************************************)
(* Bounds of the model.                                                    *)
(***************************************************************************)
MaxNameLen == 2
MaxRuns == 2

(***************************************************************************)
(* Text helpers: str.replace with a one-character pattern, str.lower.      *)
(***************************************************************************)
RECURSIVE Replace(_, _, _)
Replace(s, old, new) ==
    IF s = <<>> THEN <<>>
    ELSE (IF Head(s) = old THEN new ELSE <<Head(s)>>) \o Replace(Tail(s), old, new)

UpperChars == <<"A","B","C","D","E","F","G","H","I","J","K","L","M",
                "N","O","P","Q","R","S","T","U","V","W","X","Y","Z">>
LowerChars == <<"a","b","c","d","e","f","g","h","i","j","k","l","m",
                "n","o","p","q","r","s","t","u","v","w","x","y","z">>

\* a changed LowerChar: str.swapcase in place of str.lower
LowerChar_swapcase(c) ==
    IF \E i \in DOMAIN UpperChars : UpperChars[i] = c
    THEN LowerChars[CHOOSE i \in DOMAIN UpperChars : UpperChars[i] = c]
    ELSE IF \E i \in DOMAIN LowerChars : LowerChars[i] = c
    THEN UpperChars[CHOOSE i \in DOMAIN LowerChars : LowerChars[i] = c]
    ELSE c

LowerChar(c) ==
    IF \E i \in DOMAIN UpperChars : UpperChars[i] = c
    THEN LowerChars[CHOOSE i \in DOMAIN UpperChars : UpperChars[i] = c]
    ELSE c

Lower(s) == [i \in DOMAIN s |-> LowerChar(s[i])]

\* package_name = project_name.replace("-", "_").lower()
Normalize(name) == Lower(Replace(name, "-", <<"_">>))

(***************************************************************************)
(* The nine files of bootstrap(), in the order of its create_file calls.   *)
(* A content is the text create_file writes, textwrap.dedent(content)      *)
(* .lstrip() of the f-string: its fixed text abridged into tokens, its     *)
(* substituted values in full and in place.                                *)
(***************************************************************************)
\* a changed FilePath: the package directory named after project_name
FilePath_raw_name(i, name, pkg) ==
    CASE i = 1 -> <<"pyproject.toml">>
      [] i = 2 -> <<"src", "/">> \o name \o <<"/", "__init__.py">>
      [] i = 3 -> <<"src", "/">> \o name \o <<"/", "py.typed">>
      [] i = 4 -> <<"tests", "/", "__init__.py">>
      [] i = 5 -> <<"tests", "/", "test_">> \o pkg \o <<".py">>
      [] i = 6 -> <<".pre-commit-config.yaml">>
      [] i = 7 -> <<".github", "/", "workflows", "/", "ci.yml">>
      [] i = 8 -> <<".gitignore">>
      [] i = 9 -> <<"README.md">>

FilePath(i, name, pkg) ==
    CASE i = 1 -> <<"pyproject.toml">>
      [] i = 2 -> <<"src", "/">> \o pkg \o <<"/", "__init__.py">>
      [] i = 3 -> <<"src", "/">> \o pkg \o <<"/", "py.typed">>
      [] i = 4 -> <<"tests", "/", "__init__.py">>
      [] i = 5 -> <<"tests", "/", "test_">> \o pkg \o <<".py">>
      [] i = 6 -> <<".pre-commit-config.yaml">>
      [] i = 7 -> <<".github", "/", "workflows", "/", "ci.yml">>
      [] i = 8 -> <<".gitignore">>
      [] i = 9 -> <<"README.md">>

NumFiles == 9

FileContent(i, name, pkg, ver, desc) ==
    CASE i = 1 -> <<"[project] name = \"">> \o name
                  \o <<"\" version = \"0.1.0\" description = \"">> \o desc
                  \o <<"\" readme requires-python = \">=">> \o ver
                  \o <<"\" dev deps, build-system, packages = [\"src/">> \o pkg
                  \o <<"\"] [tool.ruff] target-version = \"py">>
                  \o Replace(ver, ".", <<>>)
                  \o <<"\" ruff lint, known-first-party = [\"">> \o pkg
                  \o <<"\"] [tool.pyright] pythonVersion = \"">> \o ver
                  \o <<"\" strict, [tool.pytest.ini_options]">>
      [] i = 2 -> <<"\"\"\"">> \o name \o <<": ">> \o desc \o <<".\"\"\"">>
      [] i = 3 -> <<>>
      [] i = 4 -> <<>>
      [] i = 5 -> <<"\"\"\"Tests for ">> \o pkg \o <<".\"\"\" from ">> \o pkg
                  \o <<" import __doc__", "def test_package_has_docstring">>
      [] i = 6 -> <<"repos: ruff-pre-commit v0.8.6, local pyright hook">>
      [] i = 7 -> <<"name: CI ... run: uv python install ">> \o ver
                  \o <<" sync, ruff check, ruff format --check, pyright, pytest">>
      [] i = 8 -> <<"__pycache__/ ... htmlcov/">>
      [] i = 9 -> <<"# ">> \o name \o <<"\n">> \o desc \o <<"## Development ...">>

(***************************************************************************)
(* The filesystem under project_dir.  dirs and files hold the entries that *)
(* exist; an entry is "rw" when the process may write to it (create        *)
(* entries in a directory, overwrite a file) and "ro" when it may not.     *)
(***************************************************************************)
DirMode(D, d) == IF d \in DOMAIN D THEN D[d] ELSE "absent"
FileMode(F, f) == IF f \in DOMAIN F THEN F[f].mode ELSE "absent"

Max(S) == CHOOSE x \in S : \A y \in S : y <= x

\* Path.parent
Parent(p) ==
    IF p = <<>> THEN <<"..">>
    ELSE LET seps == {i \in DOMAIN p : p[i] = "/"}
         IN IF seps = {} THEN <<>> ELSE SubSeq(p, 1, Max(seps) - 1)

\* Path.mkdir(parents=True, exist_ok=True): [ok, dirs]
RECURSIVE Mkdir(_, _)
Mkdir(d, D) ==
    IF DirMode(D, d) # "absent" THEN [ok |-> TRUE, dirs |-> D]
    ELSE LET up == IF DirMode(D, Parent(d)) = "absent"
                   THEN Mkdir(Parent(d), D)
                   ELSE [ok |-> TRUE, dirs |-> D]
         IN IF ~up.ok THEN up
            ELSE IF DirMode(up.dirs, Parent(d)) = "rw"
                 THEN [ok |-> TRUE, dirs |-> (d :> "rw") @@ up.dirs]
                 ELSE [ok |-> FALSE, dirs |-> up.dirs]

\* Path.write_text: whether open(path, "w") succeeds
CanWrite(F, D, f) ==
    \/ FileMode(F, f) = "rw"
    \/ FileMode(F, f) = "absent" /\ DirMode(D, Parent(f)) = "rw"

\* a changed WriteText: the file opened for appending
WriteText_append(F, f, content) ==
    (f :> [mode |-> (IF FileMode(F, f) = "absent" THEN "rw" ELSE F[f].mode),
           content |-> (IF FileMode(F, f) = "absent" THEN <<>> ELSE F[f].content)
                       \o content]) @@ F

\* Path.write_text: the files after a successful write
WriteText(F, f, content) ==
    (f :> [mode |-> (IF FileMode(F, f) = "absent" THEN "rw" ELSE F[f].mode),
           content |-> content]) @@ F

(***************************************************************************)
(* External commands and console text.                                     *)
(***************************************************************************)
NumCmds == 6

Cmd(k, ver) ==
    CASE k = 1 -> << <<"uv">>, <<"venv">>, <<"--python">>, ver >>
      [] k = 2 -> << <<"uv">>, <<"sync">>, <<"--all-extras">> >>
      [] k = 3 -> << <<"uv">>, <<"run">>, <<"ruff">>, <<"check">>, <<"src">>, <<"tests">> >>
      [] k = 4 -> << <<"uv">>, <<"run">>, <<"ruff">>, <<"format">>, <<"--check">>,
                     <<"src">>, <<"tests">> >>
      [] k = 5 -> << <<"uv">>, <<"run">>, <<"pyright">> >>
      [] k = 6 -> << <<"uv">>, <<"run">>, <<"pytest">> >>

\* " ".join(cmd)
RECURSIVE Join(_)
Join(cmd) ==
    IF cmd = <<>> THEN <<>>
    ELSE IF Len(cmd) = 1 THEN Head(cmd)
    ELSE Head(cmd) \o <<" ">> \o Join(Tail(cmd))

CreatedLine(path) == <<"Created ">> \o path
FailedLine(cmd) == <<"Command failed: ">> \o Join(cmd)

Msg(n) ==
    CASE n = 1 -> <<"Initialising uv environment...">>
      [] n = 2 -> <<"Created .venv">>
      [] n = 3 -> <<"Installed dependencies">>
      [] n = 4 -> <<"Running checks...">>
      [] n = 5 -> <<"ruff lint passed">>
      [] n = 6 -> <<"ruff format passed">>
      [] n = 7 -> <<"pyright passed">>
      [] n = 8 -> <<"pytest passed">>

HeaderLines(name, pkg, ver) ==
    << <<"Bootstrapping project: ">> \o name,
       <<"Directory: project_dir">>,
       <<"Package: ">> \o pkg,
       <<"Python: ">> \o ver >>

SummaryLines(name) ==
    << <<"Project '">> \o name \o <<"' is ready!">>,
       <<"cd project_dir">>,
       <<"git init && uv run pre-commit install">> >>

(***************************************************************************)
(* The statements of bootstrap() in program order.  create_file is split   *)
(* into its three statements and run() into the subprocess call and the    *)
(* test of its return code.                                                *)
(***************************************************************************)
St(op, arg) == [op |-> op, arg |-> arg]

\* a changed CreateSteps: create_file prints before it writes
CreateSteps_print_first ==
    [j \in 1..(3 * NumFiles) |->
        St(<<"cf_mkdir", "cf_print", "cf_write">>[((j - 1) % 3) + 1],
           ((j - 1) \div 3) + 1)]

CreateSteps ==
    [j \in 1..(3 * NumFiles) |->
        St(<<"cf_mkdir", "cf_write", "cf_print">>[((j - 1) % 3) + 1],
           ((j - 1) \div 3) + 1)]

RunSteps(k, n) == << St("run", k), St("check", k), St("print", n) >>

\* a changed Steps: the format check ahead of the lint check
Steps_format_before_lint ==
    << St("derive", 0), St("mkdir", 0) >> \o CreateSteps
    \o << St("print", 1) >> \o RunSteps(1, 2) \o RunSteps(2, 3)
    \o << St("print", 4) >> \o RunSteps(4, 6) \o RunSteps(3, 5)
    \o RunSteps(5, 7) \o RunSteps(6, 8)
    \o << St("summary", 0) >>

\* a changed Steps: the environment created before the files are rendered
Steps_venv_before_render ==
    << St("derive", 0), St("mkdir", 0) >>
    \o << St("print", 1) >> \o RunSteps(1, 2) \o CreateSteps \o RunSteps(2, 3)
    \o << St("print", 4) >> \o RunSteps(3, 5) \o RunSteps(4, 6)
    \o RunSteps(5, 7) \o RunSteps(6, 8)
    \o << St("summary", 0) >>

Steps ==
    << St("derive", 0), St("mkdir", 0) >> \o CreateSteps
    \o << St("print", 1) >> \o RunSteps(1, 2) \o RunSteps(2, 3)
    \o << St("print", 4) >> \o RunSteps(3, 5) \o RunSteps(4, 6)
    \o RunSteps(5, 7) \o RunSteps(6, 8)
    \o << St("summary", 0) >>

At(op) == exit_status = <<>> /\ pc \in DOMAIN Steps /\ Steps[pc].op = op

\* The orchestrator states of the design, in chain order; the state a
\* bootstrap() statement completes.
Chain == << "directory-created", "files-rendered", "environment-initialized",
            "dependencies-installed", "lint-checked", "format-checked",
            "type-checked", "tests-passed", "done" >>

CmdState(k) == Chain[k + 2]

(***************************************************************************)
(* Inputs and initial filesystems.                                         *)
(***************************************************************************)
Alphabet == {"a", "Z", "-", "_", "7"}
BoundedNames == UNION {[1..n -> Alphabet] : n \in 1..MaxNameLen}

MyCoolTool == <<"M","y","-","C","o","o","l","-","T","o","o","l">>
Sample == <<"s","a","m","p","l","e">>

DefaultPython == <<"3", ".", "1", "2">>
PythonVersions == {DefaultPython, <<"3", ".", "9">>}
DefaultDescription == <<>>
Descriptions == {DefaultDescription, <<"A tool">>}

Junk == <<"junk">>

SubDirs(pkg) ==
    << <<"src">>, <<"src", "/">> \o pkg, <<"tests">>, <<".github">>,
       <<".github", "/", "workflows">> >>

\* A target directory: root is the state of project_dir, anc that of its
\* nearest existing ancestor; a populated directory holds the tree of an
\* earlier scaffold of the same project; ro names the one entry of that
\* tree that is not writable (0: none, 1..9: a file, 10..14: a directory).
InitDirs(root, anc, populated, ro, pkg) ==
    [d \in {<<"..">>} \cup (IF root = "absent" THEN {} ELSE {<<>>})
           \cup (IF populated THEN {SubDirs(pkg)[j] : j \in 1..5} ELSE {}) |->
        IF d = <<"..">> THEN anc
        ELSE IF d = <<>> THEN root
        ELSE IF ro > NumFiles /\ d = SubDirs(pkg)[ro - NumFiles] THEN "ro"
        ELSE "rw"]

InitFiles(populated, ro, name, pkg) ==
    [f \in (IF populated THEN {FilePath(i, name, pkg) : i \in 1..NumFiles} ELSE {}) |->
        [mode |-> IF ro \in 1..NumFiles /\ f = FilePath(ro, name, pkg) THEN "ro" ELSE "rw",
         content |-> Junk]]

NoResult == [returncode |-> 0, stderr |-> <<>>]

Init ==
    \E name \in BoundedNames \cup {MyCoolTool, Sample},
       root \in {"absent", "rw", "ro"}, anc \in {"rw", "ro"},
       populated \in BOOLEAN, ro \in 0..(NumFiles + 5) :
        /\ root = "absent" => ~populated
        /\ root # "absent" => anc = "rw"
        /\ ~populated => ro = 0
        /\ project_name = name
        /\ python_version \in PythonVersions
        /\ description \in Descriptions
        \* every target directory for MyCoolTool; a fresh directory and the
        \* command line's defaults for the other names
        /\ name # MyCoolTool =>
              /\ root = "absent" /\ anc = "rw"
              /\ python_version = DefaultPython
              /\ description = DefaultDescription
        /\ package_name = <<>>
        /\ pc = 1
        /\ dirs = InitDirs(root, anc, populated, ro, Normalize(name))
        /\ files = InitFiles(populated, ro, name, Normalize(name))
        /\ console = <<>>
        /\ run_calls = <<>>
        /\ written = <<>>
        /\ entered = <<>>
        /\ result = NoResult
        /\ returncodes = <<>>
        /\ exit_status = <<>>
        /\ runs = 1
        /\ prev = [files |-> files, rendered |-> FALSE]

(***************************************************************************)
(* Process termination: sys.exit(1) in run(), an uncaught exception        *)
(* (the interpreter exits with status 1), or the end of the script         *)
(* (status 0).  prev records the files as the run leaves them.             *)
(***************************************************************************)
\* a changed SysExitCode: sys.exit(0)
SysExitCode_zero == 1 - 1

SysExitCode == 1
UncaughtExceptionStatus == 1
EndOfScriptStatus == 0

Exit(code) ==
    /\ exit_status' = <<code>>
    /\ prev' = [files |-> files', rendered |-> Len(written') = NumFiles]

Continue ==
    /\ pc' = pc + 1
    /\ UNCHANGED <<exit_status, prev>>

inputs == <<project_name, python_version, description, runs>>

\* bootstrap(), lines 31-36
derive ==
    /\ At("derive")
    /\ package_name' = Normalize(project_name)
    /\ console' = console \o HeaderLines(project_name, package_name', python_version)
    /\ Continue
    /\ UNCHANGED <<inputs, dirs, files, run_calls, written, entered, result,
                   returncodes>>

\* bootstrap(), line 38
mkdir_project ==
    /\ At("mkdir")
    /\ LET r == Mkdir(<<>>, dirs)
       IN /\ dirs' = r.dirs
          /\ UNCHANGED <<files, written>>
          /\ IF r.ok
             THEN /\ entered' = Append(entered, Chain[1])
                  /\ Continue
             ELSE /\ UNCHANGED <<entered, pc>>
                  /\ Exit(UncaughtExceptionStatus)
    /\ UNCHANGED <<inputs, package_name, console, run_calls, result, returncodes>>

\* create_file(), line 14
create_file_mkdir ==
    /\ At("cf_mkdir")
    /\ LET f == FilePath(Steps[pc].arg, project_name, package_name)
           r == Mkdir(Parent(f), dirs)
       IN /\ dirs' = r.dirs
          /\ UNCHANGED <<files, written>>
          /\ IF r.ok
             THEN Continue
             ELSE UNCHANGED pc /\ Exit(UncaughtExceptionStatus)
    /\ UNCHANGED <<inputs, package_name, console, run_calls, entered, result,
                   returncodes>>

Range(s) == {s[j] : j \in DOMAIN s}

\* a changed WriteFailed: the error swallowed, bootstrap() carries on
WriteFailed_swallowed ==
    /\ UNCHANGED <<files, written>>
    /\ Continue

\* a changed WriteFailed: the files written so far removed before the abort
WriteFailed_rollback ==
    /\ files' = [g \in DOMAIN files \ Range(written) |-> files[g]]
    /\ UNCHANGED <<written, pc>>
    /\ Exit(UncaughtExceptionStatus)

\* create_file(), line 15: write_text raises, nothing catches it
WriteFailed ==
    /\ UNCHANGED <<files, written, pc>>
    /\ Exit(UncaughtExceptionStatus)

\* create_file(), line 15
create_file_write ==
    /\ At("cf_write")
    /\ LET i == Steps[pc].arg
           f == FilePath(i, project_name, package_name)
       IN IF CanWrite(files, dirs, f)
          THEN /\ files' = WriteText(files, f,
                      FileContent(i, project_name, package_name, python_version,
                                  description))
               /\ written' = Append(written, f)
               /\ Continue
          ELSE WriteFailed
    /\ UNCHANGED <<inputs, package_name, dirs, console, run_calls, entered, result,
                   returncodes>>

\* create_file(), line 16
create_file_print ==
    /\ At("cf_print")
    /\ console' = Append(console,
                         CreatedLine(FilePath(Steps[pc].arg, project_name, package_name)))
    /\ entered' = IF Steps[pc].arg = NumFiles THEN Append(entered, Chain[2]) ELSE entered
    /\ Continue
    /\ UNCHANGED <<inputs, package_name, dirs, files, run_calls, written, result,
                   returncodes>>

\* bootstrap(), the print statements of lines 250-269
bootstrap_print ==
    /\ At("print")
    /\ console' = Append(console, Msg(Steps[pc].arg))
    /\ Continue
    /\ UNCHANGED <<inputs, package_name, dirs, files, run_calls, written, entered,
                   result, returncodes>>

RCs == {0, 1, 2}
Stderrs == {<<>>, <<"boom">>}

\* run(), line 21: the child's exit code and error stream are the
\* environment's choice; subprocess.run raises when the program cannot be
\* started
run_subprocess ==
    /\ At("run")
    /\ run_calls' = Append(run_calls, Cmd(Steps[pc].arg, python_version))
    /\ UNCHANGED <<files, written>>
    /\ \/ /\ \E rc \in RCs, err \in Stderrs :
                /\ result' = [returncode |-> rc, stderr |-> err]
                /\ returncodes' = Append(returncodes, rc)
          /\ Continue
       \/ /\ UNCHANGED <<result, returncodes, pc>>
          /\ Exit(UncaughtExceptionStatus)
    /\ UNCHANGED <<inputs, package_name, dirs, console, entered>>

\* a changed Failed: only a child killed by a signal counts
Failed_negative(rc) == rc < 0

\* run(), line 22
Failed(rc) == rc # 0

\* run(), lines 22-25, and the return to bootstrap()
run_check ==
    /\ At("check")
    /\ UNCHANGED <<files, written>>
    /\ IF Failed(result.returncode)
       THEN /\ console' = console \o << FailedLine(Cmd(Steps[pc].arg, python_version)),
                                        result.stderr >>
            /\ UNCHANGED <<entered, pc>>
            /\ Exit(SysExitCode)
       ELSE /\ entered' = Append(entered, CmdState(Steps[pc].arg))
            /\ UNCHANGED console
            /\ Continue
    /\ UNCHANGED <<inputs, package_name, dirs, run_calls, result, returncodes>>

\* bootstrap(), lines 271-273
summary ==
    /\ At("summary")
    /\ console' = console \o SummaryLines(project_name)
    /\ entered' = Append(entered, Chain[9])
    /\ Continue
    /\ UNCHANGED <<inputs, package_name, dirs, files, run_calls, written, result,
                   returncodes>>

\* the script's last statement has returned
script_exit ==
    /\ exit_status = <<>>
    /\ pc = Len(Steps) + 1
    /\ UNCHANGED <<files, written>>
    /\ Exit(EndOfScriptStatus)
    /\ UNCHANGED <<inputs, package_name, pc, dirs, console, run_calls, entered,
                   result, returncodes>>

\* the user invokes the script again with the same arguments
rerun ==
    /\ exit_status # <<>>
    /\ runs < MaxRuns
    /\ runs' = runs + 1
    /\ pc' = 1
    /\ package_name' = <<>>
    /\ console' = <<>>
    /\ run_calls' = <<>>
    /\ written' = <<>>
    /\ entered' = <<>>
    /\ result' = NoResult
    /\ returncodes' = <<>>
    /\ exit_status' = <<>>
    /\ UNCHANGED <<project_name, python_version, description, dirs, files, prev>>

\* between two invocations something else rewrites one of the files
tamper ==
    /\ exit_status # <<>>
    /\ runs < MaxRuns
    /\ \A g \in DOMAIN files : files[g].content # Junk
    /\ \E f \in DOMAIN files : files' = [files EXCEPT ![f].content = Junk]
    /\ UNCHANGED <<inputs, package_name, pc, dirs, console, run_calls, written,
                   entered, result, returncodes, exit_status, prev>>

Next ==
    \/ derive
    \/ mkdir_project
    \/ create_file_mkdir
    \/ create_file_write
    \/ create_file_print
    \/ bootstrap_print
    \/ run_subprocess
    \/ run_check
    \/ summary
    \/ script_exit
    \/ rerun
    \/ tamper

Spec == Init /\ [][Next]_vars

(***************************************************************************)
(* Vocabulary of the properties.                                           *)
(***************************************************************************)
IsPrefix(s, t) == Len(s) <= Len(t) /\ s = SubSeq(t, 1, Len(s))

Running == exit_status = <<>>
ExitedNonZero == exit_status # <<>> /\ exit_status[1] # 0

\* the nine declared files, in the order the design lists them
NineFiles(pkg) ==
    << <<"pyproject.toml">>,
       <<"src", "/">> \o pkg \o <<"/", "__init__.py">>,
       <<"src", "/">> \o pkg \o <<"/", "py.typed">>,
       <<"tests", "/", "__init__.py">>,
       <<"tests", "/", "test_">> \o pkg \o <<".py">>,
       <<".pre-commit-config.yaml">>,
       <<".github", "/", "workflows", "/", "ci.yml">>,
       <<".gitignore">>,
       <<"README.md">> >>

\* the six external commands, in the order the design lists them
SixCommands(ver) ==
    << << <<"uv">>, <<"venv">>, <<"--python">>, ver >>,
       << <<"uv">>, <<"sync">>, <<"--all-extras">> >>,
       << <<"uv">>, <<"run">>, <<"ruff">>, <<"check">>, <<"src">>, <<"tests">> >>,
       << <<"uv">>, <<"run">>, <<"ruff">>, <<"format">>, <<"--check">>, <<"src">>,
          <<"tests">> >>,
       << <<"uv">>, <<"run">>, <<"pyright">> >>,
       << <<"uv">>, <<"run">>, <<"pytest">> >> >>

\* the confirmation line of each external step
Confirmation ==
    << <<"Created .venv">>, <<"Installed dependencies">>, <<"ruff lint passed">>,
       <<"ruff format passed">>, <<"pyright passed">>, <<"pytest passed">> >>

ReadyLine == <<"Project '">> \o project_name \o <<"' is ready!">>

AllZero == [k \in 1..NumCmds |-> 0]

FirstWrite == CHOOSE j \in DOMAIN Steps : Steps[j] = St("cf_write", 1)

Letters == Range(UpperChars) \cup Range(LowerChars)
Digits == {"0", "1", "2", "3", "4", "5", "6", "7", "8", "9"}

(***************************************************************************)
(* C1.  When one of the six external commands returns a non-zero exit      *)
(* code, control never passes the test of that return code: no later       *)
(* command is spawned, no confirmation of that or a later step and no      *)
(* summary is printed, no later state is entered, and the next step of the *)
(* process is its termination with a non-zero exit status.                 *)
(***************************************************************************)
C1_FailedCommandHaltsChain ==
    [][ /\ result'.returncode # 0 =>
            LET k == Len(run_calls')
            IN /\ k \in 1..NumCmds
               /\ run_calls' = SubSeq(SixCommands(python_version), 1, k)
               /\ pc' \in DOMAIN Steps /\ Steps[pc'] = St("check", k)
               /\ \A n \in k..NumCmds : Confirmation[n] \notin Range(console')
               /\ ReadyLine \notin Range(console')
               /\ Len(entered') = k + 1
               /\ exit_status' = <<>> \/ exit_status'[1] # 0
        /\ (result.returncode # 0 /\ exit_status = <<>>) =>
               /\ exit_status' # <<>> /\ exit_status'[1] # 0
               /\ run_calls' = run_calls
               /\ written' = written
               /\ entered' = entered
      ]_vars

C1_Witness ==
    /\ ExitedNonZero
    /\ result.returncode # 0
    /\ Len(run_calls) = 3
    /\ returncodes = <<0, 0, 2>>

(***************************************************************************)
(* C2.  The states of a run are entered in chain order, each once, none    *)
(* skipped, each only after its predecessor: the directory exists before   *)
(* a file is written, the nine files are written before files-rendered,    *)
(* command k is spawned only after the state before it was entered, and    *)
(* the state of command k is entered only after it exited with code 0.     *)
(***************************************************************************)
C2_StrictLinearChain ==
    /\ IsPrefix(entered, Chain)
    /\ IsPrefix(run_calls, SixCommands(python_version))
    /\ Len(entered) >= 1 => DirMode(dirs, <<>>) # "absent"
    /\ Len(written) >= 1 => Len(entered) >= 1
    /\ Len(entered) >= 2 => Len(written) = 9
    /\ \A k \in 1..Len(run_calls) : Len(entered) >= k + 1
    /\ \A k \in 1..NumCmds :
          Len(entered) >= k + 2 => Len(returncodes) >= k /\ returncodes[k] = 0
    /\ Len(entered) = 9 => Len(run_calls) = 6

C2_Witness == entered = Chain /\ exit_status = <<0>>

\* a process that ended inside a create_file call wrote the files before
\* that call and no other, and called run() never
C3_CreateFileFailureIsFinal ==
    (exit_status # <<>> /\ pc \in DOMAIN Steps
        /\ Steps[pc].op \in {"cf_mkdir", "cf_write"}) =>
        /\ run_calls = <<>>
        /\ written = SubSeq(NineFiles(package_name), 1, Steps[pc].arg - 1)
        /\ exit_status[1] # 0

\* the run gets no further than the write of pyproject.toml, which fails
C3_AbortsAtFirstRender ==
    /\ written = <<>>
    /\ run_calls = <<>>
    /\ pc <= FirstWrite
    /\ exit_status # <<>> => exit_status[1] # 0 /\ pc = FirstWrite

(***************************************************************************)
(* C3 as stated.  With an unwritable target directory the run aborts on    *)
(* the write of pyproject.toml and no external command is invoked; and     *)
(* when a create_file call fails no later file is written and run() is     *)
(* never called.                                                           *)
(***************************************************************************)
C3_Original ==
    /\ DirMode(dirs, <<>>) = "ro" => C3_AbortsAtFirstRender
    /\ C3_CreateFileFailureIsFinal

(***************************************************************************)
(* C3 as amended.  With an unwritable target directory that does not       *)
(* already hold a writable pyproject.toml, the run aborts on the write of  *)
(* pyproject.toml and no external command is invoked; and when a           *)
(* create_file call fails no later file is written and run() is never      *)
(* called.                                                                 *)
(***************************************************************************)
C3_Amended ==
    /\ (DirMode(dirs, <<>>) = "ro" /\ FileMode(files, <<"pyproject.toml">>) # "rw")
          => C3_AbortsAtFirstRender
    /\ C3_CreateFileFailureIsFinal

C3_Witness ==
    /\ DirMode(dirs, <<>>) = "ro"
    /\ FileMode(files, <<"pyproject.toml">>) = "absent"
    /\ ExitedNonZero
    /\ pc = FirstWrite

(***************************************************************************)
(* C4.  No path is written twice in a run, a run whose renders all         *)
(* succeed has written exactly the nine declared files, and once a second  *)
(* or later invocation with the same arguments has rendered its files,     *)
(* each of the nine has the content the previous complete rendering left,  *)
(* whatever it held when the invocation started.                           *)
(***************************************************************************)
C4_RenderOnceAndIdempotent ==
    /\ Cardinality(Range(written)) = Len(written)
    /\ Len(entered) >= 2 =>
          /\ Len(written) = 9
          /\ Range(written) = Range(NineFiles(package_name))
    /\ (runs >= 2 /\ prev.rendered /\ Len(entered) >= 2 /\ Running) =>
          \A f \in Range(NineFiles(package_name)) :
              /\ f \in DOMAIN files /\ f \in DOMAIN prev.files
              /\ files[f].content = prev.files[f].content

C4_Witness ==
    /\ runs = 2
    /\ prev.rendered
    /\ Running
    /\ Len(entered) >= 2
    /\ description # <<>>

(***************************************************************************)
(* C5.  A process that has ended has status 0 exactly when all nine        *)
(* renders and all six commands succeeded and the summary was printed, and *)
(* a non-zero status when it stopped at a step; done is entered only in    *)
(* a run without a failed step.                                            *)
(***************************************************************************)
C5_ExitStatus ==
    LET full == /\ written = NineFiles(package_name)
                /\ returncodes = AllZero
                /\ Len(run_calls) = 6
                /\ ReadyLine \in Range(console)
                /\ entered = Chain
    IN /\ exit_status # <<>> =>
            /\ exit_status = <<0>> <=> full
            /\ exit_status[1] # 0 <=> pc \in DOMAIN Steps
            /\ exit_status[1] # 0 <=> ~full
       /\ "done" \in Range(entered) =>
            /\ full
            /\ exit_status \in {<<>>, <<0>>}

C5_Witness ==
    /\ ExitedNonZero
    /\ Steps[pc].op = "cf_write"
    /\ "done" \notin Range(entered)

(***************************************************************************)
(* C6.  Normalizing the derived package identifier again yields the same   *)
(* identifier, and the identifier is the normalization of the project      *)
(* name whatever the directory, Python version and description are.        *)
(***************************************************************************)
C6_NormalizeIdempotent ==
    pc > 1 =>
        /\ Normalize(package_name) = package_name
        /\ package_name = Normalize(project_name)

C6_Witness ==
    /\ pc > 1
    /\ package_name # project_name
    /\ Normalize(package_name) = package_name

C8_NoRollback ==
    [][ exit_status = <<>> =>
          /\ \A f \in DOMAIN files :
                /\ f \in DOMAIN files'
                /\ \/ files'[f].content = files[f].content
                   \/ /\ Len(written') = Len(written) + 1
                      /\ written'[Len(written')] = f
          /\ \A d \in DOMAIN dirs : d \in DOMAIN dirs'
          /\ exit_status' # <<>> =>
                \A j \in 1..Len(written') :
                    /\ written'[j] \in DOMAIN files'
                    /\ files'[written'[j]].content =
                          FileContent(j, project_name, package_name, python_version,
                                      description)
      ]_vars

C8_Witness ==
    /\ ExitedNonZero
    /\ Len(written) = 4
    /\ \A j \in 1..4 :
          /\ written[j] \in DOMAIN files
          /\ files[written[j]].content =
                FileContent(j, project_name, package_name, python_version, description)

(***************************************************************************)
(* C9.  The files are written in the order pyproject.toml,                 *)
(* src/<pkg>/__init__.py, src/<pkg>/py.typed, tests/__init__.py,           *)
(* tests/test_<pkg>.py, .pre-commit-config.yaml, .github/workflows/ci.yml, *)
(* .gitignore, README.md; uv venv is the first command, and at every       *)
(* run() call the working directory and all nine files exist.              *)
(***************************************************************************)
C9_RenderOrderBeforeCommands ==
    /\ IsPrefix(written, NineFiles(package_name))
    /\ run_calls # <<>> =>
          /\ run_calls[1] = << <<"uv">>, <<"venv">>, <<"--python">>, python_version >>
          /\ written = NineFiles(package_name)
          /\ DirMode(dirs, <<>>) # "absent"
          /\ Running => \A f \in Range(written) : f \in DOMAIN files

C9_Witness ==
    /\ Len(run_calls) = 1
    /\ Len(written) = 9
    /\ Running

(***************************************************************************)
(* C10.  The console agrees with the steps taken: a Created line only for  *)
(* a file already written, a confirmation only for a command that exited   *)
(* with code 0, the summary only after all six confirmations, and on a     *)
(* command failure the failure line and then the captured standard error   *)
(* as the last two lines of a process that has ended.                      *)
(***************************************************************************)
C10_ConsoleConsistent ==
    LET C == Range(console)
    IN /\ \A i \in 1..9 :
             (<<"Created ">> \o NineFiles(package_name)[i]) \in C =>
                 Len(written) >= i /\ written[i] = NineFiles(package_name)[i]
       /\ \A k \in 1..6 :
             Confirmation[k] \in C => Len(returncodes) >= k /\ returncodes[k] = 0
       /\ ReadyLine \in C => \A k \in 1..6 : Confirmation[k] \in C
       /\ \A k \in 1..6 :
             FailedLine(SixCommands(python_version)[k]) \in C =>
                 /\ ExitedNonZero
                 /\ Len(returncodes) = k /\ returncodes[k] # 0
                 /\ Len(console) >= 2
                 /\ console[Len(console) - 1] = FailedLine(SixCommands(python_version)[k])
                 /\ console[Len(console)] = result.stderr
       /\ (exit_status # <<>> /\ result.returncode # 0) =>
             FailedLine(SixCommands(python_version)[Len(returncodes)]) \in C

C10_Witness ==
    /\ ExitedNonZero
    /\ result = [returncode |-> 1, stderr |-> <<"boom">>]
    /\ Len(console) >= 2
    /\ console[Len(console)] = <<"boom">>
    /\ Confirmation[1] \in Range(console)

====
